---- MODULE Spec2Model ----
(***************************************************************************)
(* The IITM PYQ Telegram bot (src/telegram_bot.py): the papers table, the  *)
(* two ConversationHandlers registered in main() and every handler they    *)
(* dispatch to.  One action per handler; an update is handled atomically   *)
(* (the Application processes updates one at a time).  A callback query    *)
(* may carry any token: the buttons of every message sent so far stay      *)
(* clickable.  A storage fault is an input of the two writing calls,       *)
(* add_paper and delete_paper; the three queries are taken to succeed.     *)
(***************************************************************************)
EXTENDS Integers, Sequences, FiniteSets, TLC

VARIABLES
    papers,      \* rows of table papers (id and uploaded_at are never read)
    user_conv,   \* user_conv_handler: conversation state per user
    admin_conv,  \* admin_upload_handler: conversation state per user
    user_data,   \* context.user_data per user
    out,         \* what the last handled update answered, and to whom
    budget       \* conversations that may still be started (bounds the exploration)

vars == <<papers, user_conv, admin_conv, user_data, out, budget>>

-----------------------------------------------------------------------------
(* Conversation states, telegram_bot.py:21-23; END is ConversationHandler.END *)
LEVEL == 0
SUBJECT == 1
YEAR == 2
ADMIN_ACTION == 5
ADMIN_LEVEL == 6
ADMIN_SUBJECT == 7
ADMIN_YEAR == 8
ADMIN_FILE == 9
DELETE_LEVEL == 10
DELETE_SUBJECT == 11
DELETE_YEAR == 12
END == -1

ADMIN_IDS == {"7576725871"}

(* Bounded inputs *)
Guest == "1000000001"
Users == ADMIN_IDS \cup {Guest}

Levels == <<"foundation", "diploma", "degree">>

(* Conversations (/start, /admin) started in one run *)
MaxFlows == 1

ChoiceTokens ==
    {"foundation", "Maths", "2024",
     "back_to_level", "back_to_subject",
     "admin_upload", "admin_delete", "admin_cancel"}

Texts == {" Algebra ", "2024", "back_to_subject"}

Docs == {[file_id |-> "f1", file_name |-> "a.pdf"],
         [file_id |-> "f2", file_name |-> "b.pdf"]}

Faults == {"none", "connect", "execute"}

(* The kinds of update a user can send *)
Kinds == {"start", "admin", "cancel", "choice", "text", "document"}

(* An absent key of user_data; an absent row or document *)
None == "<None>"
NoDocument == [file_id |-> None, file_name |-> None]

Keys == {"level", "subject", "admin_action", "admin_level", "admin_subject",
         "admin_year", "delete_level", "delete_subject"}

-----------------------------------------------------------------------------
(* str.strip() on the texts of the model: surrounding blanks are removed *)
strip(t) ==
    CASE t = " Algebra " -> "Algebra"
      [] t = " Maths "   -> "Maths"
      [] t = " 2024 "    -> "2024"
      [] t = " "         -> ""
      [] OTHER           -> t

(* SQLite's BINARY collation (memcmp) on the strings of the model: blank,   *)
(* digits, upper case, underscore, lower case.                              *)
ByteOrder ==
    <<"", "2023", "2024", "Algebra", "Maths", "Stats",
      "admin_cancel", "admin_delete", "admin_upload",
      "back_to_level", "back_to_subject",
      "degree", "diploma", "foundation">>

Rank(s) == CHOOSE i \in 1..Len(ByteOrder) : ByteOrder[i] = s

RECURSIVE OrderBy(_, _)
(* ORDER BY: the strings of S as a sequence, ascending or descending *)
OrderBy(S, desc) ==
    IF S = {} THEN <<>>
    ELSE LET first == CHOOSE s \in S : \A t \in S :
                          IF desc THEN Rank(t) <= Rank(s) ELSE Rank(s) <= Rank(t)
         IN  <<first>> \o OrderBy(S \ {first}, desc)

Range(seq) == {seq[i] : i \in DOMAIN seq}

-----------------------------------------------------------------------------
(* Paper store *)

SameTriple(r, level, subject, year) ==
    r.level = level /\ r.subject = subject /\ r.year = year

(* Mutant: ORDER BY subject DESC *)
get_subjects_desc(level) ==
    OrderBy({r.subject : r \in {p \in papers : p.level = level}}, TRUE)

(* Mutant: the WHERE level = ? clause is missing *)
get_subjects_any_level(level) ==
    OrderBy({r.subject : r \in papers}, FALSE)

get_subjects(level) ==
    OrderBy({r.subject : r \in {p \in papers : p.level = level}}, FALSE)

get_years(level, subject) ==
    OrderBy({r.year : r \in {p \in papers : p.level = level /\ p.subject = subject}},
            TRUE)

(* Mutant: the WHERE clause does not compare the year *)
get_paper_any_year(level, subject, year) ==
    LET rows == {p \in papers : p.level = level /\ p.subject = subject}
    IN  IF rows = {} THEN NoDocument
        ELSE LET r == CHOOSE p \in rows : TRUE
             IN  [file_id |-> r.file_id, file_name |-> r.file_name]

get_paper(level, subject, year) ==
    LET rows == {p \in papers : SameTriple(p, level, subject, year)}
    IN  IF rows = {} THEN NoDocument
        ELSE LET r == CHOOSE p \in rows : TRUE
             IN  [file_id |-> r.file_id, file_name |-> r.file_name]

(* Mutant: a plain INSERT into a table without the UNIQUE constraint *)
add_paper_no_unique(level, subject, year, file_id, file_name, user_id, fault) ==
    IF fault = "connect" THEN [store |-> papers, result |-> "raise"]
    ELSE IF fault = "execute" THEN [store |-> papers, result |-> "fail"]
    ELSE [store |-> papers
                      \cup {[level |-> level, subject |-> subject, year |-> year,
                             file_id |-> file_id, file_name |-> file_name,
                             uploaded_by |-> user_id]},
          result |-> "ok"]

(* Mutant: INSERT OR IGNORE, the row in conflict stays *)
add_paper_or_ignore(level, subject, year, file_id, file_name, user_id, fault) ==
    IF fault = "connect" THEN [store |-> papers, result |-> "raise"]
    ELSE IF fault = "execute" THEN [store |-> papers, result |-> "fail"]
    ELSE [store |-> IF \E p \in papers : SameTriple(p, level, subject, year)
                    THEN papers
                    ELSE papers
                      \cup {[level |-> level, subject |-> subject, year |-> year,
                             file_id |-> file_id, file_name |-> file_name,
                             uploaded_by |-> user_id]},
          result |-> "ok"]

(* INSERT OR REPLACE under UNIQUE(level, subject, year): the rows in conflict *)
(* are deleted, then the new row is inserted.  result: "ok" (True), "fail"    *)
(* (False: the fault was caught), "raise" (the fault left the function).      *)
add_paper(level, subject, year, file_id, file_name, user_id, fault) ==
    IF fault = "connect" THEN [store |-> papers, result |-> "raise"]
    ELSE IF fault = "execute" THEN [store |-> papers, result |-> "fail"]
    ELSE [store |-> {p \in papers : ~SameTriple(p, level, subject, year)}
                      \cup {[level |-> level, subject |-> subject, year |-> year,
                             file_id |-> file_id, file_name |-> file_name,
                             uploaded_by |-> user_id]},
          result |-> "ok"]

(* Mutant: the WHERE clause does not compare the subject *)
delete_paper_any_subject(level, subject, year, fault) ==
    IF fault # "none" THEN [store |-> papers, result |-> "raise"]
    ELSE LET rows == {p \in papers : p.level = level /\ p.year = year}
         IN  [store |-> papers \ rows,
              result |-> IF Cardinality(rows) > 0 THEN "ok" ELSE "fail"]

(* DELETE ... WHERE: no try/except, every fault leaves the function *)
delete_paper(level, subject, year, fault) ==
    IF fault # "none" THEN [store |-> papers, result |-> "raise"]
    ELSE LET rows == {p \in papers : SameTriple(p, level, subject, year)}
         IN  [store |-> papers \ rows,
              result |-> IF Cardinality(rows) > 0 THEN "ok" ELSE "fail"]

(* Mutant: everybody is an admin *)
is_admin_everybody(user_id) == TRUE

is_admin(user_id) == user_id \in ADMIN_IDS

-----------------------------------------------------------------------------
(* Dispatch: main() registers user_conv_handler before admin_upload_handler *)
(* in the same group, so an update goes to the first of the two whose       *)
(* check_update accepts it.  kind: "start", "admin", "cancel" (commands),   *)
(* "choice" (callback query), "text", "document".                           *)

user_conv_handler(u, kind) ==
    IF user_conv[u] = END
    THEN IF kind = "start" THEN "start" ELSE None
    ELSE IF kind = "choice"
         THEN CASE user_conv[u] = LEVEL   -> "select_level"
                [] user_conv[u] = SUBJECT -> "select_subject"
                [] user_conv[u] = YEAR    -> "select_year"
         ELSE IF kind = "cancel" THEN "cancel" ELSE None

(* Mutant: the admin conversation has no /cancel fallback *)
admin_upload_handler_no_fallback(u, kind) ==
    IF user_conv_handler(u, kind) # None THEN None
    ELSE IF admin_conv[u] = END
    THEN IF kind = "admin" THEN "admin_panel" ELSE None
    ELSE LET s == admin_conv[u]
         IN  CASE s = ADMIN_ACTION /\ kind = "choice"    -> "admin_action"
               [] s = ADMIN_LEVEL /\ kind = "choice"     -> "admin_select_level"
               [] s = ADMIN_SUBJECT /\ kind = "text"     -> "admin_get_subject"
               [] s = ADMIN_YEAR /\ kind = "text"        -> "admin_get_year"
               [] s = ADMIN_FILE /\ kind = "document"    -> "admin_get_file"
               [] s = DELETE_LEVEL /\ kind = "choice"    -> "delete_select_level"
               [] s = DELETE_SUBJECT /\ kind = "choice"  -> "delete_select_subject"
               [] s = DELETE_YEAR /\ kind = "choice"     -> "delete_select_year"
               [] OTHER -> None

admin_upload_handler(u, kind) ==
    IF user_conv_handler(u, kind) # None THEN None
    ELSE IF admin_conv[u] = END
    THEN IF kind = "admin" THEN "admin_panel" ELSE None
    ELSE LET s == admin_conv[u]
             h == CASE s = ADMIN_ACTION /\ kind = "choice"    -> "admin_action"
                    [] s = ADMIN_LEVEL /\ kind = "choice"     -> "admin_select_level"
                    [] s = ADMIN_SUBJECT /\ kind = "text"     -> "admin_get_subject"
                    [] s = ADMIN_YEAR /\ kind = "text"        -> "admin_get_year"
                    [] s = ADMIN_FILE /\ kind = "document"    -> "admin_get_file"
                    [] s = DELETE_LEVEL /\ kind = "choice"    -> "delete_select_level"
                    [] s = DELETE_SUBJECT /\ kind = "choice"  -> "delete_select_subject"
                    [] s = DELETE_YEAR /\ kind = "choice"     -> "delete_select_year"
                    [] OTHER -> None
         IN  IF h # None THEN h
             ELSE IF kind = "cancel" THEN "cancel" ELSE None

-----------------------------------------------------------------------------
(* What a handler does to the state.  A handler that raises leaves the      *)
(* conversation where it was (the writes it made before raising stay).      *)

Reply(u, handler, reply, menu, document) ==
    [user |-> u, handler |-> handler, reply |-> reply, menu |-> menu,
     document |-> document]

(* Mutant: one user_data for the whole process *)
Put_shared(u, key, value) ==
    [v \in Users |-> [user_data[v] EXCEPT ![key] = value]]

Put(u, key, value) == [user_data EXCEPT ![u][key] = value]

Row(level, subject, year, document) ==
    [level |-> level, subject |-> subject, year |-> year,
     file_id |-> document.file_id, file_name |-> document.file_name,
     uploaded_by |-> "7576725871"]

(* The table outlives the process (CREATE TABLE IF NOT EXISTS): the bot *)
(* starts on whatever earlier uploads left in it.                       *)
InitialStores ==
    {{},
     {Row("foundation", "Maths", "2024", [file_id |-> "f1", file_name |-> "a.pdf"]),
      Row("foundation", "Algebra", "2024", [file_id |-> "f2", file_name |-> "b.pdf"])}}

Start(flows) ==
    /\ papers \in InitialStores
    /\ budget = flows
    /\ user_conv = [u \in Users |-> END]
    /\ admin_conv = [u \in Users |-> END]
    /\ user_data = [u \in Users |-> [k \in Keys |-> None]]
    /\ out = Reply(None, None, None, <<>>, None)

Init == Start(MaxFlows)

(* One conversation more *)
InitTwo == Start(MaxFlows + 1)

start(u) ==
    /\ user_conv_handler(u, "start") = "start"
    /\ budget > 0
    /\ budget' = budget - 1
    /\ user_conv' = [user_conv EXCEPT ![u] = LEVEL]
    /\ out' = Reply(u, "start", "level_menu", Levels, None)
    /\ UNCHANGED <<papers, admin_conv, user_data>>

(* Mutant: the level clicked is not recorded *)
select_level_no_store(u, d) ==
    /\ user_conv_handler(u, "choice") = "select_level"
    /\ LET subjects == get_subjects(d)
       IN  IF subjects = <<>>
           THEN /\ user_conv' = [user_conv EXCEPT ![u] = END]
                /\ out' = Reply(u, "select_level", "no_papers", <<>>, None)
           ELSE /\ user_conv' = [user_conv EXCEPT ![u] = SUBJECT]
                /\ out' = Reply(u, "select_level", "subject_menu",
                                subjects \o <<"back_to_level">>, None)
    /\ UNCHANGED <<papers, admin_conv, user_data, budget>>

select_level(u, d) ==
    /\ user_conv_handler(u, "choice") = "select_level"
    /\ user_data' = Put(u, "level", d)
    /\ LET subjects == get_subjects(d)
       IN  IF subjects = <<>>
           THEN /\ user_conv' = [user_conv EXCEPT ![u] = END]
                /\ out' = Reply(u, "select_level", "no_papers", <<>>, None)
           ELSE /\ user_conv' = [user_conv EXCEPT ![u] = SUBJECT]
                /\ out' = Reply(u, "select_level", "subject_menu",
                                subjects \o <<"back_to_level">>, None)
    /\ UNCHANGED <<papers, admin_conv, budget>>

select_subject(u, d) ==
    /\ user_conv_handler(u, "choice") = "select_subject"
    /\ IF d = "back_to_level"
       THEN /\ user_conv' = [user_conv EXCEPT ![u] = LEVEL]
            /\ out' = Reply(u, "select_subject", "level_menu", Levels, None)
            /\ UNCHANGED user_data
       ELSE /\ user_data' = Put(u, "subject", d)
            /\ LET level == user_data[u]["level"]
               IN  IF level = None
                   THEN /\ out' = Reply(u, "select_subject", "exception", <<>>, None)
                        /\ UNCHANGED user_conv
                   ELSE /\ user_conv' = [user_conv EXCEPT ![u] = YEAR]
                        /\ out' = Reply(u, "select_subject", "year_menu",
                                        get_years(level, d) \o <<"back_to_subject">>,
                                        None)
    /\ UNCHANGED <<papers, admin_conv, budget>>

(* Mutant: Back at the year stage starts over and forgets the level *)
select_year_back_forgets(u, d) ==
    /\ user_conv_handler(u, "choice") = "select_year"
    /\ LET level == user_data[u]["level"]
           subject == user_data[u]["subject"]
           paper == get_paper(level, subject, d)
       IN  IF d = "back_to_subject"
           THEN /\ user_conv' = [user_conv EXCEPT ![u] = SUBJECT]
                /\ user_data' = Put(u, "level", None)
                /\ out' = Reply(u, "select_year", "subject_menu",
                                get_subjects(level) \o <<"back_to_level">>, None)
           ELSE /\ user_conv' = [user_conv EXCEPT ![u] = END]
                /\ UNCHANGED user_data
                /\ IF paper # NoDocument
                   THEN out' = Reply(u, "select_year", "found", <<>>, paper.file_id)
                   ELSE out' = Reply(u, "select_year", "not_available", <<>>, None)
    /\ UNCHANGED <<papers, admin_conv, budget>>

select_year(u, d) ==
    /\ user_conv_handler(u, "choice") = "select_year"
    /\ LET level == user_data[u]["level"]
           subject == user_data[u]["subject"]
           paper == get_paper(level, subject, d)
       IN  IF d = "back_to_subject"
           THEN IF level = None
                THEN /\ out' = Reply(u, "select_year", "exception", <<>>, None)
                     /\ UNCHANGED user_conv
                ELSE /\ user_conv' = [user_conv EXCEPT ![u] = SUBJECT]
                     /\ out' = Reply(u, "select_year", "subject_menu",
                                     get_subjects(level) \o <<"back_to_level">>, None)
           ELSE IF paper # NoDocument
                THEN /\ user_conv' = [user_conv EXCEPT ![u] = END]
                     /\ out' = Reply(u, "select_year", "found", <<>>, paper.file_id)
                ELSE IF level = None
                     THEN /\ out' = Reply(u, "select_year", "exception", <<>>, None)
                          /\ UNCHANGED user_conv
                     ELSE /\ user_conv' = [user_conv EXCEPT ![u] = END]
                          /\ out' = Reply(u, "select_year", "not_available", <<>>, None)
    /\ UNCHANGED <<papers, admin_conv, user_data, budget>>

admin_panel(u) ==
    /\ admin_upload_handler(u, "admin") = "admin_panel"
    /\ budget > 0
    /\ IF ~is_admin(u)
       THEN /\ out' = Reply(u, "admin_panel", "not_authorized", <<>>, None)
            /\ admin_conv' = [admin_conv EXCEPT ![u] = END]
            /\ UNCHANGED budget
       ELSE /\ out' = Reply(u, "admin_panel", "admin_panel",
                            <<"admin_upload", "admin_delete", "admin_cancel">>, None)
            /\ admin_conv' = [admin_conv EXCEPT ![u] = ADMIN_ACTION]
            /\ budget' = budget - 1
    /\ UNCHANGED <<papers, user_conv, user_data>>

admin_action(u, d) ==
    /\ admin_upload_handler(u, "choice") = "admin_action"
    /\ IF d = "admin_cancel"
       THEN /\ admin_conv' = [admin_conv EXCEPT ![u] = END]
            /\ out' = Reply(u, "admin_action", "panel_closed", <<>>, None)
            /\ UNCHANGED user_data
       ELSE /\ user_data' = Put(u, "admin_action", d)
            /\ IF d = "admin_upload"
               THEN /\ admin_conv' = [admin_conv EXCEPT ![u] = ADMIN_LEVEL]
                    /\ out' = Reply(u, "admin_action", "upload_level_menu",
                                    Levels \o <<"admin_cancel">>, None)
               ELSE IF d = "admin_delete"
               THEN /\ admin_conv' = [admin_conv EXCEPT ![u] = DELETE_LEVEL]
                    /\ out' = Reply(u, "admin_action", "delete_level_menu",
                                    Levels \o <<"admin_cancel">>, None)
               ELSE \* the handler returns None: the state stays
                    /\ out' = Reply(u, "admin_action", "no_reply", <<>>, None)
                    /\ UNCHANGED admin_conv
    /\ UNCHANGED <<papers, user_conv, budget>>

admin_select_level(u, d) ==
    /\ admin_upload_handler(u, "choice") = "admin_select_level"
    /\ IF d = "admin_cancel"
       THEN /\ admin_conv' = [admin_conv EXCEPT ![u] = END]
            /\ out' = Reply(u, "admin_select_level", "operation_cancelled", <<>>, None)
            /\ UNCHANGED user_data
       ELSE /\ user_data' = Put(u, "admin_level", d)
            /\ admin_conv' = [admin_conv EXCEPT ![u] = ADMIN_SUBJECT]
            /\ out' = Reply(u, "admin_select_level", "ask_subject", <<>>, None)
    /\ UNCHANGED <<papers, user_conv, budget>>

admin_get_subject(u, t) ==
    /\ admin_upload_handler(u, "text") = "admin_get_subject"
    /\ user_data' = Put(u, "admin_subject", strip(t))
    /\ IF user_data[u]["admin_level"] = None
       THEN /\ out' = Reply(u, "admin_get_subject", "exception", <<>>, None)
            /\ UNCHANGED admin_conv
       ELSE /\ admin_conv' = [admin_conv EXCEPT ![u] = ADMIN_YEAR]
            /\ out' = Reply(u, "admin_get_subject", "ask_year", <<>>, None)
    /\ UNCHANGED <<papers, user_conv, budget>>

admin_get_year(u, t) ==
    /\ admin_upload_handler(u, "text") = "admin_get_year"
    /\ user_data' = Put(u, "admin_year", strip(t))
    /\ IF user_data[u]["admin_level"] = None \/ user_data[u]["admin_subject"] = None
       THEN /\ out' = Reply(u, "admin_get_year", "exception", <<>>, None)
            /\ UNCHANGED admin_conv
       ELSE /\ admin_conv' = [admin_conv EXCEPT ![u] = ADMIN_FILE]
            /\ out' = Reply(u, "admin_get_year", "ask_file", <<>>, None)
    /\ UNCHANGED <<papers, user_conv, budget>>

admin_get_file(u, document, fault) ==
    /\ admin_upload_handler(u, "document") = "admin_get_file"
    /\ LET level == user_data[u]["admin_level"]
           subject == user_data[u]["admin_subject"]
           year == user_data[u]["admin_year"]
           added == add_paper(level, subject, year, document.file_id,
                              document.file_name, u, fault)
       IN  IF document = NoDocument
           THEN /\ out' = Reply(u, "admin_get_file", "send_a_document", <<>>, None)
                /\ UNCHANGED <<papers, admin_conv>>
           ELSE IF None \in {level, subject, year} \/ added.result = "raise"
           THEN /\ out' = Reply(u, "admin_get_file", "exception", <<>>, None)
                /\ UNCHANGED <<papers, admin_conv>>
           ELSE /\ papers' = added.store
                /\ admin_conv' = [admin_conv EXCEPT ![u] = END]
                /\ out' = Reply(u, "admin_get_file",
                                IF added.result = "ok" THEN "uploaded"
                                                       ELSE "upload_error",
                                <<>>, None)
    /\ UNCHANGED <<user_conv, user_data, budget>>

delete_select_level(u, d) ==
    /\ admin_upload_handler(u, "choice") = "delete_select_level"
    /\ IF d = "admin_cancel"
       THEN /\ admin_conv' = [admin_conv EXCEPT ![u] = END]
            /\ out' = Reply(u, "delete_select_level", "operation_cancelled", <<>>, None)
            /\ UNCHANGED user_data
       ELSE /\ user_data' = Put(u, "delete_level", d)
            /\ LET subjects == get_subjects(d)
               IN  IF subjects = <<>>
                   THEN /\ admin_conv' = [admin_conv EXCEPT ![u] = END]
                        /\ out' = Reply(u, "delete_select_level", "no_papers_found",
                                        <<>>, None)
                   ELSE /\ admin_conv' = [admin_conv EXCEPT ![u] = DELETE_SUBJECT]
                        /\ out' = Reply(u, "delete_select_level", "delete_subject_menu",
                                        subjects \o <<"admin_cancel">>, None)
    /\ UNCHANGED <<papers, user_conv, budget>>

delete_select_subject(u, d) ==
    /\ admin_upload_handler(u, "choice") = "delete_select_subject"
    /\ IF d = "admin_cancel"
       THEN /\ admin_conv' = [admin_conv EXCEPT ![u] = END]
            /\ out' = Reply(u, "delete_select_subject", "operation_cancelled", <<>>, None)
            /\ UNCHANGED user_data
       ELSE /\ user_data' = Put(u, "delete_subject", d)
            /\ LET level == user_data[u]["delete_level"]
               IN  IF level = None
                   THEN /\ out' = Reply(u, "delete_select_subject", "exception", <<>>, None)
                        /\ UNCHANGED admin_conv
                   ELSE /\ admin_conv' = [admin_conv EXCEPT ![u] = DELETE_YEAR]
                        /\ out' = Reply(u, "delete_select_subject", "delete_year_menu",
                                        get_years(level, d) \o <<"admin_cancel">>, None)
    /\ UNCHANGED <<papers, user_conv, budget>>

delete_select_year(u, d, fault) ==
    /\ admin_upload_handler(u, "choice") = "delete_select_year"
    /\ LET level == user_data[u]["delete_level"]
           subject == user_data[u]["delete_subject"]
           deleted == delete_paper(level, subject, d, fault)
       IN  IF d = "admin_cancel"
           THEN /\ admin_conv' = [admin_conv EXCEPT ![u] = END]
                /\ out' = Reply(u, "delete_select_year", "operation_cancelled", <<>>, None)
                /\ UNCHANGED papers
           ELSE IF None \in {level, subject} \/ deleted.result = "raise"
           THEN /\ out' = Reply(u, "delete_select_year", "exception", <<>>, None)
                /\ UNCHANGED <<papers, admin_conv>>
           ELSE /\ papers' = deleted.store
                /\ admin_conv' = [admin_conv EXCEPT ![u] = END]
                /\ out' = Reply(u, "delete_select_year",
                                IF deleted.result = "ok" THEN "deleted"
                                                         ELSE "delete_error",
                                <<>>, None)
    /\ UNCHANGED <<user_conv, user_data, budget>>

(* /cancel is a fallback of both handlers: the first that is in a *)
(* conversation takes it and ends its own conversation only.      *)
cancel(u) ==
    /\ "cancel" \in {user_conv_handler(u, "cancel"), admin_upload_handler(u, "cancel")}
    /\ IF user_conv_handler(u, "cancel") = "cancel"
       THEN /\ user_conv' = [user_conv EXCEPT ![u] = END]
            /\ UNCHANGED admin_conv
       ELSE /\ admin_conv' = [admin_conv EXCEPT ![u] = END]
            /\ UNCHANGED user_conv
    /\ out' = Reply(u, "cancel", "cancelled", <<>>, None)
    /\ UNCHANGED <<papers, user_data, budget>>

(* An update neither ConversationHandler accepts: no callback runs, nothing *)
(* is stored and nothing is sent.                                          *)
unhandled(u, kind) ==
    /\ user_conv_handler(u, kind) = None
    /\ admin_upload_handler(u, kind) = None
    /\ out' = Reply(None, None, None, <<>>, None)
    /\ UNCHANGED <<papers, user_conv, admin_conv, user_data, budget>>

Next ==
    \E u \in Users :
        \/ start(u)
        \/ admin_panel(u)
        \/ cancel(u)
        \/ \E kind \in Kinds : unhandled(u, kind)
        \/ \E d \in ChoiceTokens :
              \/ select_level(u, d)
              \/ select_subject(u, d)
              \/ select_year(u, d)
              \/ admin_action(u, d)
              \/ admin_select_level(u, d)
              \/ delete_select_level(u, d)
              \/ delete_select_subject(u, d)
              \/ \E fault \in Faults : delete_select_year(u, d, fault)
        \/ \E t \in Texts :
              \/ admin_get_subject(u, t)
              \/ admin_get_year(u, t)
        \/ \E document \in Docs, fault \in Faults : admin_get_file(u, document, fault)

Spec == Init /\ [][Next]_vars

SpecTwo == InitTwo /\ [][Next]_vars

-----------------------------------------------------------------------------
(* Properties *)

Triple(p) == <<p.level, p.subject, p.year>>

(* The triples whose rows a step changes *)
Touched ==
    {Triple(p) : p \in (papers \ papers') \cup (papers' \ papers)}

UploadSelection(u) ==
    <<user_data[u]["admin_level"], user_data[u]["admin_subject"],
      user_data[u]["admin_year"]>>

DeleteSelection(u, d) ==
    <<user_data[u]["delete_level"], user_data[u]["delete_subject"], d>>

(* A step in which add_paper returned True / delete_paper returned at all *)
UpsertStep(u, document) ==
    out'.reply = "uploaded" /\ admin_get_file(u, document, "none")

DeleteStep(u, d) ==
    /\ out'.reply \in {"deleted", "delete_error"}
    /\ out'.user = u
    /\ delete_select_year(u, d, "none")

(* C1: the store never holds two records with the same (level, subject, *)
(* year), whatever uploads and deletions happened.                       *)
TripleUnique ==
    \A p, q \in papers : Triple(p) = Triple(q) => p = q

(* C1 witness: an upload has replaced the record of a triple that was there *)
ReplacedRecordPresent ==
    /\ out.reply = "uploaded"
    /\ Cardinality(papers) = 2
    /\ \E p \in papers : /\ Triple(p) = <<"foundation", "Algebra", "2024">>
                          /\ p.file_id = "f1"

(* C2: after a successful upload on a triple, get_paper of that triple is  *)
(* the uploaded document (reference and name), also when the triple had a  *)
(* record before; and the record of a triple changes only in a successful  *)
(* upload or a delete on that very triple.                                 *)
LastWriterWins ==
    [][ /\ \A u \in Users, document \in Docs :
             UpsertStep(u, document) =>
                 \A T \in {UploadSelection(u)} :
                     /\ get_paper(T[1], T[2], T[3])' = document
                     /\ Touched \subseteq {T}
        /\ \A T \in Touched :
             \/ \E u \in Users, document \in Docs :
                    UpsertStep(u, document) /\ UploadSelection(u) = T
             \/ \E u \in Users, d \in ChoiceTokens :
                    DeleteStep(u, d) /\ DeleteSelection(u, d) = T
      ]_vars

(* C2 witness: the second upload on a triple is the one get_paper returns *)
SecondUploadFound ==
    /\ out.reply = "uploaded"
    /\ get_paper("foundation", "Algebra", "2024")
           = [file_id |-> "f1", file_name |-> "a.pdf"]
    /\ get_paper("foundation", "Maths", "2024")
           = [file_id |-> "f1", file_name |-> "a.pdf"]

(* C3: delete_paper answers True exactly when a record with the triple is  *)
(* there, removes the records of that triple and nothing else, and leaves  *)
(* a store in which deleting the same triple answers False.                *)
DeleteExact ==
    [][ \A u \in Users, d \in ChoiceTokens :
            DeleteStep(u, d) =>
                \A T \in {DeleteSelection(u, d)} :
                    /\ out'.reply = "deleted" <=> \E p \in papers : Triple(p) = T
                    /\ papers' = {p \in papers : Triple(p) # T}
                    /\ delete_paper(T[1], T[2], T[3], "none")'.result = "fail"
      ]_vars

(* C3 witness: a record was deleted and the other record of the store stays *)
DeletedOneOfTwo ==
    /\ out.reply = "deleted"
    /\ Cardinality(papers) = 1

(* C4: get_subjects(level) lists exactly the subjects that have a record   *)
(* under the level, each once, in ascending byte order.                    *)
SubjectsExactSorted ==
    \A level \in ChoiceTokens \cup Range(Levels) :
        LET subjects == get_subjects(level)
        IN  /\ Range(subjects) = {p.subject : p \in {q \in papers : q.level = level}}
            /\ \A i, j \in DOMAIN subjects :
                   i < j => Rank(subjects[i]) < Rank(subjects[j])

(* C4 witness: the last record of Maths was deleted and Maths left the list *)
SubjectGoneAfterDelete ==
    /\ out.reply = "deleted"
    /\ get_subjects("foundation") = <<"Algebra">>

(* C5: a user who is not in ADMIN_IDS is never in a state of the admin     *)
(* conversation, is answered "not authorized" on /admin, and no update of  *)
(* that user changes the store.                                            *)
NonAdminNeverWrites ==
    /\ [](\A u \in Users \ ADMIN_IDS : admin_conv[u] = END)
    /\ [][ \A u \in Users \ ADMIN_IDS :
              /\ out'.user = u => papers' = papers
              /\ admin_panel(u) => out'.reply = "not_authorized"
         ]_vars

(* C5 witness: the guest asked for the admin panel and was turned away *)
GuestNotAuthorized ==
    /\ out.user = Guest
    /\ out.reply = "not_authorized"
    /\ admin_conv[Guest] = END

(* C6: a user is in at most one conversation at a time *)
SingleFlowPerUser ==
    \A u \in Users : user_conv[u] = END \/ admin_conv[u] = END

CancelStep(u) ==
    \/ cancel(u)
    \/ admin_action(u, "admin_cancel")
    \/ admin_select_level(u, "admin_cancel")
    \/ delete_select_level(u, "admin_cancel")
    \/ delete_select_subject(u, "admin_cancel")
    \/ delete_select_year(u, "admin_cancel", "none")

(* C7: a cancel ends the flow, drops the user's stage and selections and *)
(* leaves the store as it was.                                           *)
CancelDiscardsState ==
    [][ \A u \in Users :
            CancelStep(u) =>
                /\ papers' = papers
                /\ user_conv'[u] = END \/ admin_conv'[u] = END
                /\ user_data'[u] = [k \in Keys |-> None]
      ]_vars

(* C8: a storage fault in the upload or in the delete is answered with the *)
(* failure message, ends the conversation and leaves the store unchanged.  *)
StorageFaultReported ==
    [][ \A u \in Users, fault \in Faults \ {"none"} :
            /\ \A document \in Docs :
                  admin_get_file(u, document, fault) =>
                      /\ out'.reply = "upload_error"
                      /\ admin_conv'[u] = END
                      /\ papers' = papers
            /\ \A d \in ChoiceTokens \ {"admin_cancel"} :
                  delete_select_year(u, d, fault) =>
                      /\ out'.reply = "delete_error"
                      /\ admin_conv'[u] = END
                      /\ papers' = papers
      ]_vars

(* What the year stage of Browse owes a user who sends the token d: the  *)
(* document of the record (level, subject, d) if the store holds one, the  *)
(* "not available" answer if it holds none, and the end of the flow.       *)
YearChoiceServed(u, d) ==
    select_year(u, d) =>
        LET rows == {p \in papers :
                        Triple(p) = <<user_data[u]["level"],
                                      user_data[u]["subject"], d>>}
        IN  /\ user_conv'[u] = END
            /\ rows # {} =>
                  /\ out'.reply = "found"
                  /\ \E p \in rows : out'.document = p.file_id
            /\ rows = {} =>
                  /\ out'.reply = "not_available"
                  /\ out'.document = None

(* The level and the subject a user chose stay recorded up to the year stage *)
SelectionsRecorded(u) ==
    /\ \A d \in ChoiceTokens : select_level(u, d) => user_data'[u]["level"] = d
    /\ \A d \in ChoiceTokens \ {"back_to_level"} :
          select_subject(u, d) => user_data'[u]["subject"] = d
    /\ (user_conv[u] \in {SUBJECT, YEAR} /\ user_conv'[u] \in {SUBJECT, YEAR})
          => user_data'[u]["level"] = user_data[u]["level"]
    /\ (user_conv[u] = YEAR /\ user_conv'[u] = YEAR)
          => user_data'[u]["subject"] = user_data[u]["subject"]

(* The token d is a year of the menu the user chose from: any token but   *)
(* the one of the Back button, and that one too when the store holds a     *)
(* record with that year under the level and subject chosen.               *)
IsYearChoice(u, d) ==
    \/ d # "back_to_subject"
    \/ \E p \in papers :
          Triple(p) = <<user_data[u]["level"], user_data[u]["subject"], d>>

(* C9: a year choice Y in Browse, after level L and subject S, sends       *)
(* document r exactly when the store holds a record (L, S, Y) with         *)
(* reference r, and answers "not available" otherwise, for every year an   *)
(* admin can have stored.                                                  *)
BrowseDelivery ==
    [][ \A u \in Users :
            /\ SelectionsRecorded(u)
            /\ \A d \in ChoiceTokens : IsYearChoice(u, d) => YearChoiceServed(u, d)
      ]_vars

(* The same for every year but the one that reads like the Back button *)
BrowseDeliveryButBack ==
    [][ \A u \in Users :
            /\ SelectionsRecorded(u)
            /\ \A d \in ChoiceTokens \ {"back_to_subject"} : YearChoiceServed(u, d)
      ]_vars

(* The guest walked foundation, Maths, 2024 and was sent f1 *)
GuestGotPaper ==
    /\ out.user = Guest
    /\ out.reply = "found"
    /\ out.document = "f1"
    /\ user_data[Guest]["level"] = "foundation"
    /\ user_data[Guest]["subject"] = "Maths"

(* C10: a level choice for which the store has no record ends Browse with *)
(* the "no papers" answer; the flow does not go on to the subject menu.   *)
BrowseShortCircuit ==
    [][ \A u \in Users, d \in ChoiceTokens :
            (out'.handler = "select_level" /\ select_level(u, d)
               /\ ~\E p \in papers : p.level = d) =>
                /\ user_conv'[u] = END
                /\ out'.reply = "no_papers"
      ]_vars

(* C10 witness: a level without records was chosen while the store has *)
(* records of another level                                            *)
EmptyLevelChosen ==
    /\ out.reply = "no_papers"
    /\ user_conv[out.user] = END
    /\ papers # {}
(* The user u sends a text, or clicks a button: the step of the callback *)
(* that takes the update, or the step in which none does.                *)
TextEvent(u) ==
    \/ unhandled(u, "text")
    \/ \E t \in Texts : admin_get_subject(u, t) \/ admin_get_year(u, t)

ChoiceEvent(u) ==
    \/ unhandled(u, "choice")
    \/ \E d \in ChoiceTokens :
          \/ select_level(u, d) \/ select_subject(u, d) \/ select_year(u, d)
          \/ admin_action(u, d) \/ admin_select_level(u, d)
          \/ delete_select_level(u, d) \/ delete_select_subject(u, d)
          \/ \E fault \in Faults : delete_select_year(u, d, fault)

(* C11: while the upload waits for the document, a text or a choice keeps *)
(* it waiting, keeps the level, subject and year collected, keeps the     *)
(* store, and is answered with the prompt to send a document.             *)
DocumentStageRetry ==
    [][ \A u \in Users :
            (admin_conv[u] = ADMIN_FILE /\ (TextEvent(u) \/ ChoiceEvent(u))) =>
                /\ admin_conv'[u] = ADMIN_FILE
                /\ UploadSelection(u)' = UploadSelection(u)
                /\ papers' = papers
                /\ out'.user = u
                /\ out'.reply = "send_a_document"
      ]_vars

(* The part of it that does not speak of the prompt *)
DocumentStageKeeps ==
    [][ \A u \in Users :
            (admin_conv[u] = ADMIN_FILE /\ (TextEvent(u) \/ ChoiceEvent(u))) =>
                /\ admin_conv'[u] = ADMIN_FILE
                /\ UploadSelection(u)' = UploadSelection(u)
                /\ papers' = papers
      ]_vars
(* C12: Back at the year stage returns to the subject stage with the level *)
(* still recorded and the subject menu of that level; Back at the subject  *)
(* stage returns to the level stage of the same conversation; neither      *)
(* changes a recorded selection nor the store.                             *)
BackKeepsSelections ==
    [][ \A u \in Users :
            /\ select_year(u, "back_to_subject") =>
                  /\ user_conv'[u] = SUBJECT
                  /\ user_data[u]["level"] # None
                  /\ user_data' = user_data
                  /\ out'.reply = "subject_menu"
                  /\ out'.menu = get_subjects(user_data[u]["level"])
                                     \o <<"back_to_level">>
                  /\ papers' = papers
                  /\ budget' = budget
            /\ select_subject(u, "back_to_level") =>
                  /\ user_conv'[u] = LEVEL
                  /\ user_data' = user_data
                  /\ out'.reply = "level_menu"
                  /\ out'.menu = Levels
                  /\ papers' = papers
                  /\ budget' = budget
      ]_vars

(* C12 witness: Back from the years of foundation, Maths shows the subjects *)
(* of foundation again, level and subject still recorded                    *)
BackFromYearStage ==
    /\ out.handler = "select_year"
    /\ out.reply = "subject_menu"
    /\ out.menu = <<"Algebra", "Maths", "back_to_level">>
    /\ user_conv[out.user] = SUBJECT
    /\ user_data[out.user]["level"] = "foundation"
    /\ user_data[out.user]["subject"] = "Maths"
(* The ConversationState of a user: the stage in each conversation and the *)
(* selections                                                              *)
ConversationState(u) == <<user_conv[u], admin_conv[u], user_data[u]>>

(* C13: a step taken for one user leaves the stage and the selections of *)
(* every other user as they were.                                        *)
UserIndependence ==
    [][ \A v \in Users :
            out'.user # v => ConversationState(v)' = ConversationState(v)
      ]_vars

(* C13 witness: the admin answered the year prompt while the guest, with a *)
(* level and a subject chosen, is at the year stage of Browse              *)
AdminActsWhileGuestBrowses ==
    /\ out.user \in ADMIN_IDS
    /\ out.reply = "ask_file"
    /\ admin_conv[out.user] = ADMIN_FILE
    /\ user_conv[Guest] = YEAR
    /\ user_data[Guest]["level"] = "foundation"
    /\ user_data[Guest]["subject"] = "Maths"
UserStages == {LEVEL, SUBJECT, YEAR}
AdminStages == {ADMIN_ACTION, ADMIN_LEVEL, ADMIN_SUBJECT, ADMIN_YEAR, ADMIN_FILE,
                DELETE_LEVEL, DELETE_SUBJECT, DELETE_YEAR}

(* A step in which a storage fault is injected into a writing call *)
FaultStep ==
    \E u \in Users, fault \in Faults \ {"none"} :
        \/ \E document \in Docs : admin_get_file(u, document, fault)
        \/ \E d \in ChoiceTokens : delete_select_year(u, d, fault)

(* C14: every conversation is always at END or at a stage of its handler; *)
(* from every stage /cancel is accepted and ends the conversation it is    *)
(* taken by, so the terminal state can be reached; and no callback raises  *)
(* unless a storage fault is injected, in which case the stage stays.      *)
DefinedExit ==
    /\ [](\A u \in Users :
            /\ user_conv[u] \in UserStages \cup {END}
            /\ admin_conv[u] \in AdminStages \cup {END}
            /\ (user_conv[u] # END \/ admin_conv[u] # END) => ENABLED cancel(u))
    /\ [][ /\ \A u \in Users :
                cancel(u) =>
                    IF user_conv[u] # END
                    THEN user_conv'[u] = END /\ admin_conv'[u] = admin_conv[u]
                    ELSE admin_conv'[u] = END
           /\ out'.reply = "exception" =>
                 /\ FaultStep
                 /\ user_conv' = user_conv /\ admin_conv' = admin_conv
         ]_vars

(* C14 witness: add_paper raised in the document stage; the upload is still *)
(* in that stage and /cancel is accepted                                    *)
RaisedAndStillCancellable ==
    /\ out.reply = "exception"
    /\ out.handler = "admin_get_file"
    /\ admin_conv[out.user] = ADMIN_FILE
    /\ ENABLED cancel(out.user)

(* C15: the level of every stored record is one of foundation, diploma, *)
(* degree.                                                               *)
CanonicalLevels ==
    \A p \in papers : p.level \in Range(Levels)
(* The upload flow records the level clicked and the texts sent, stripped, *)
(* and keeps them up to the document stage                                 *)
UploadCollected(u) ==
    /\ \A d \in ChoiceTokens \ {"admin_cancel"} :
          admin_select_level(u, d) => user_data'[u]["admin_level"] = d
    /\ \A t \in Texts :
          /\ admin_get_subject(u, t) => user_data'[u]["admin_subject"] = strip(t)
          /\ admin_get_year(u, t) => user_data'[u]["admin_year"] = strip(t)
    /\ (admin_conv[u] \in {ADMIN_SUBJECT, ADMIN_YEAR, ADMIN_FILE}
          /\ admin_conv'[u] \in {ADMIN_SUBJECT, ADMIN_YEAR, ADMIN_FILE})
          => user_data'[u]["admin_level"] = user_data[u]["admin_level"]
    /\ (admin_conv[u] \in {ADMIN_YEAR, ADMIN_FILE}
          /\ admin_conv'[u] \in {ADMIN_YEAR, ADMIN_FILE})
          => user_data'[u]["admin_subject"] = user_data[u]["admin_subject"]
    /\ (admin_conv[u] = ADMIN_FILE /\ admin_conv'[u] = ADMIN_FILE)
          => user_data'[u]["admin_year"] = user_data[u]["admin_year"]

(* What the document stage owes an admin who sends a document: one write  *)
(* of the collected triple with the document and the sender, no change to *)
(* any other triple, no change at all if the write fails, and the end of  *)
(* the flow in both cases.                                                *)
UploadServed(u, document, fault) ==
    admin_get_file(u, document, fault) =>
        LET T == UploadSelection(u)
        IN  /\ admin_conv'[u] = END
            /\ fault = "none" =>
                  /\ papers' = {p \in papers : Triple(p) # T}
                                 \cup {[level |-> T[1], subject |-> T[2],
                                        year |-> T[3],
                                        file_id |-> document.file_id,
                                        file_name |-> document.file_name,
                                        uploaded_by |-> u]}
                  /\ get_paper(T[1], T[2], T[3])' = document
                  /\ out'.reply = "uploaded"
            /\ fault # "none" => papers' = papers

(* C16: a document sent in the document stage writes exactly the record of *)
(* the level chosen, the stripped subject and year sent, the document and  *)
(* the sender, and ends the flow whether the write succeeded or failed.    *)
UploadWritesCollected ==
    [][ \A u \in Users :
            /\ UploadCollected(u)
            /\ \A document \in Docs, fault \in Faults :
                  UploadServed(u, document, fault)
      ]_vars

(* The same when add_paper returns, True or False *)
UploadWritesCollectedOnReturn ==
    [][ \A u \in Users :
            /\ UploadCollected(u)
            /\ \A document \in Docs, fault \in Faults \ {"connect"} :
                  UploadServed(u, document, fault)
      ]_vars
(* The token d is a year of the delete menu: any token but the one of the *)
(* Cancel button, and that one too when the store holds a record with     *)
(* that year under the level and subject chosen.                          *)
IsDeleteYearChoice(u, d) ==
    \/ d # "admin_cancel"
    \/ \E p \in papers : Triple(p) = DeleteSelection(u, d)

(* What the year stage of the delete flow owes the admin: the record of    *)
(* the triple removed and nothing else, "deleted" exactly when a record    *)
(* was removed and the failure message otherwise, and the end of the flow. *)
DeleteServed(u, d, fault) ==
    delete_select_year(u, d, fault) =>
        LET T == DeleteSelection(u, d)
        IN  /\ admin_conv'[u] = END
            /\ papers' \subseteq papers
            /\ papers \ papers' \subseteq {p \in papers : Triple(p) = T}
            /\ out'.reply = "deleted" <=> papers' # papers
            /\ out'.reply = "delete_error" <=> papers' = papers
            /\ fault = "none" => ~\E p \in papers' : Triple(p) = T

(* The level and the subject clicked are the ones the year stage deletes *)
(* under; a level without records ends the flow with "no papers found"   *)
DeleteCollected(u) ==
    /\ \A d \in ChoiceTokens \ {"admin_cancel"} :
          /\ delete_select_level(u, d) =>
                /\ user_data'[u]["delete_level"] = d
                /\ (~\E p \in papers : p.level = d) =>
                      /\ admin_conv'[u] = END
                      /\ out'.reply = "no_papers_found"
                /\ (\E p \in papers : p.level = d) =>
                      admin_conv'[u] = DELETE_SUBJECT
          /\ delete_select_subject(u, d) => user_data'[u]["delete_subject"] = d
    /\ (admin_conv[u] \in {DELETE_SUBJECT, DELETE_YEAR}
          /\ admin_conv'[u] \in {DELETE_SUBJECT, DELETE_YEAR})
          => user_data'[u]["delete_level"] = user_data[u]["delete_level"]
    /\ (admin_conv[u] = DELETE_YEAR /\ admin_conv'[u] = DELETE_YEAR)
          => user_data'[u]["delete_subject"] = user_data[u]["delete_subject"]

(* C17: a year choice in the delete flow deletes exactly the record of the *)
(* level, subject and year chosen, answers "deleted" if and only if a      *)
(* record was removed and the failure message otherwise, and ends the      *)
(* flow; a level without records ends it with "no papers found".           *)
DeleteLeaf ==
    [][ \A u \in Users :
            /\ DeleteCollected(u)
            /\ \A d \in ChoiceTokens, fault \in Faults :
                  IsDeleteYearChoice(u, d) => DeleteServed(u, d, fault)
      ]_vars

(* The same when delete_paper returns *)
DeleteLeafOnReturn ==
    [][ \A u \in Users :
            /\ DeleteCollected(u)
            /\ \A d \in ChoiceTokens :
                  IsDeleteYearChoice(u, d) => DeleteServed(u, d, "none")
      ]_vars
(* While the Browse conversation of u is ended, only /start opens it: no *)
(* other step runs a Browse callback for u or sends u a document          *)
BrowseStaysEnded(u) ==
    (user_conv[u] = END /\ ~start(u)) =>
        /\ user_conv'[u] = END
        /\ out'.user = u =>
              /\ out'.handler \notin {"select_level", "select_subject", "select_year"}
              /\ out'.document = None

(* C18: a year choice ends Browse whether or not a record was found, and *)
(* once Browse is ended no choice of the user moves it or delivers a     *)
(* document until the user sends /start.                                 *)
NoLoopBack ==
    [][ \A u \in Users :
            /\ \A d \in ChoiceTokens :
                  (IsYearChoice(u, d) /\ select_year(u, d)) => user_conv'[u] = END
            /\ BrowseStaysEnded(u)
      ]_vars

(* The same for every year but the one that reads like the Back button *)
NoLoopBackButBack ==
    [][ \A u \in Users :
            /\ \A d \in ChoiceTokens \ {"back_to_subject"} :
                  select_year(u, d) => user_conv'[u] = END
            /\ BrowseStaysEnded(u)
      ]_vars
(* C19: every record of the store can be walked to through the menus: in *)
(* Browse the click on its level, then on its subject, then on its year  *)
(* delivers its document, and in the delete flow the same clicks remove   *)
(* it, whatever texts the record was uploaded with.                       *)
MenusReachEveryRecord ==
    [][ \A u \in Users, d \in ChoiceTokens :
            /\ (select_level(u, d) /\ \E p \in papers : p.level = d) =>
                  /\ user_conv'[u] = SUBJECT
                  /\ user_data'[u]["level"] = d
            /\ (select_subject(u, d)
                  /\ \E p \in papers : /\ p.level = user_data[u]["level"]
                                       /\ p.subject = d) =>
                  /\ user_conv'[u] = YEAR
                  /\ user_data'[u]["level"] = user_data[u]["level"]
                  /\ user_data'[u]["subject"] = d
            /\ \A p \in papers :
                  (select_year(u, d)
                     /\ Triple(p) = <<user_data[u]["level"],
                                      user_data[u]["subject"], d>>) =>
                      /\ out'.reply = "found"
                      /\ out'.document = p.file_id
            /\ (delete_select_level(u, d) /\ \E p \in papers : p.level = d) =>
                  /\ admin_conv'[u] = DELETE_SUBJECT
                  /\ user_data'[u]["delete_level"] = d
            /\ (delete_select_subject(u, d)
                  /\ \E p \in papers : /\ p.level = user_data[u]["delete_level"]
                                       /\ p.subject = d) =>
                  /\ admin_conv'[u] = DELETE_YEAR
                  /\ user_data'[u]["delete_level"] = user_data[u]["delete_level"]
                  /\ user_data'[u]["delete_subject"] = d
            /\ \A p \in papers :
                  (delete_select_year(u, d, "none")
                     /\ Triple(p) = DeleteSelection(u, d)) =>
                      /\ out'.reply = "deleted"
                      /\ papers' = papers \ {p}
      ]_vars
(* The keys of user_data the callbacks of a stage read *)
Reads(stage) ==
    CASE stage = SUBJECT        -> {"level"}
      [] stage = YEAR           -> {"level", "subject"}
      [] stage = ADMIN_SUBJECT  -> {"admin_level"}
      [] stage = ADMIN_YEAR     -> {"admin_level", "admin_subject"}
      [] stage = ADMIN_FILE     -> {"admin_level", "admin_subject", "admin_year"}
      [] stage = DELETE_SUBJECT -> {"delete_level"}
      [] stage = DELETE_YEAR    -> {"delete_level", "delete_subject"}
      [] OTHER                  -> {}

(* C20: in every reachable state a user in a stage has every selection the *)
(* callbacks of that stage read, also in a conversation started after      *)
(* earlier ones were cancelled or ended.                                   *)
SelectionsDefined ==
    \A u \in Users :
        \A k \in Reads(user_conv[u]) \cup Reads(admin_conv[u]) :
            user_data[u][k] # None

(* C20 witness: a second upload waits for the year while the year of an *)
(* earlier conversation is still in user_data                           *)
SecondFlowWithLeftovers ==
    \E u \in Users :
        /\ budget = 0
        /\ admin_conv[u] = ADMIN_YEAR
        /\ out.reply = "ask_year"
        /\ user_data[u]["admin_year"] # None
====
